---- MODULE Spec2Model ----
(***************************************************************************)
(* Relevant Segment Extraction: the segment search get_best_segments of    *)
(* all_rag_techniques/simple_rag.ipynb (RSE notebook, lines 585-639),      *)
(* modelled statement by statement as a state machine (Spec), two          *)
(* invocations of it side by side (SpecTwo), rerank_chunks with the cell   *)
(* that calls the search (SpecRerank), the chunker                         *)
(* split_text_to_chunks_with_indices (SpecChunker, SpecChunkerFair), the   *)
(* retrieval retrieve_with_context_overlap over its chunks (SpecRetrieve)  *)
(* and adjust_relevance_scores (SpecFeedback).                             *)
(*                                                                         *)
(* Relevance values are floats in the notebook.  The model keeps them as   *)
(* integers counted in thousandths, so 0.3 is 300 and -0.15 is -150; sums  *)
(* of such values are exact, and the comparisons with 0, with best_value   *)
(* and with minimum_value are the ones of the code.                        *)
(*                                                                         *)
(* Indices start and end are the 0-based Python indices; a TLA+ sequence   *)
(* is 1-based, so relevance_values[i] of the code is relevance_values[i+1] *)
(* here.  A segment (start, end) is the tuple <<start, end>>.              *)
(*                                                                         *)
(* The cell writes its last line, "return best_segments, scores" (line     *)
(* 639), at column 0.  The model reads it as the return statement of the   *)
(* function, which is what the docstring (lines 597-599) documents.        *)
(***************************************************************************)
EXTENDS Integers, Sequences, FiniteSets

VARIABLES
    relevance_values,    \* argument: one value per chunk
    max_length,          \* argument
    overall_max_length,  \* argument
    minimum_value,       \* argument
    best_segments,       \* local, line 602
    scores,              \* local, line 603
    total_length,        \* local, line 604
    best_segment,        \* local, line 607
    best_value,          \* local, line 608
    start,               \* loop variable of line 609 (next index to visit)
    end,                 \* loop variable of line 613 (next index to visit)
    pc,                  \* position of the call
    calls,               \* two invocations of get_best_segments side by side
    chunker,             \* a call of split_text_to_chunks_with_indices
    rerank,              \* a call of rerank_chunks and the penalty cell
    retrieval,           \* a call of retrieve_with_context_overlap
    feedback             \* a call of adjust_relevance_scores

vars == <<relevance_values, max_length, overall_max_length, minimum_value,
          best_segments, scores, total_length, best_segment, best_value,
          start, end, pc, calls, chunker, rerank, retrieval, feedback>>

\* the state of the other functions, which get_best_segments never touches
others == <<calls, chunker, rerank, retrieval, feedback>>

args == <<relevance_values, max_length, overall_max_length, minimum_value>>

----------------------------------------------------------------------------
(* Bounds of the explored inputs.                                          *)

MaxChunks == 3

MaxParam == 3

ValueSet == {-2, -1, 0, 3}

MinimumSet == {-1000001, -1, 0, 2, 4}

Min(a, b) == IF a < b THEN a ELSE b

RECURSIVE SeqsUpTo(_)
SeqsUpTo(n) ==
    IF n = 0 THEN {<<>>}
    ELSE LET shorter == SeqsUpTo(n - 1)
         IN  shorter \cup {Append(s, v) : s \in {t \in shorter : Len(t) = n - 1},
                                          v \in ValueSet}

(* The notebook's worked example (line 296) and the 6-chunk scenario, in   *)
(* thousandths.                                                            *)
SpikeInput ==
    [rv |-> <<-200, -200, 400, 800, -200>>, ml |-> 5, oml |-> 5, mv |-> 500]

ScenarioInput ==
    [rv |-> <<-100, -150, 300, 600, -50, 500>>, ml |-> 3, oml |-> 6, mv |-> 200]

Inputs ==
    [rv : SeqsUpTo(MaxChunks), ml : -1..MaxParam, oml : -1..(MaxParam + 1),
     mv : MinimumSet]
    \cup {SpikeInput, ScenarioInput}

----------------------------------------------------------------------------
(* Pure helpers of the function body.                                      *)

\* Python's None (line 607)
None == <<>>

\* best_value = -1000 (line 608), in thousandths
InitialBestValue == -1000 * 1000

\* sum(relevance_values[start:end]) (line 625), 0-based half-open slice
RECURSIVE SliceSum(_, _, _)
SliceSum(rv, s, e) ==
    IF s >= e \/ s >= Len(rv) THEN 0
    ELSE rv[s + 1] + SliceSum(rv, s + 1, e)

\* the comparison with 0 of lines 611 and 615 (inverted)
NegativeInverted(v) == v > 0

\* "< 0" of lines 611 and 615: a negative value is skipped as an end point
Negative(v) == v < 0

\* line 613 with the range taken as inclusive of its stop value
EndRangeInclusive(rv, s, e, ml) == e > Min(s + ml + 1, Len(rv) + 1)

\* range(start+1, min(start+max_length+1, len(relevance_values)+1)) is
\* exhausted at e (line 613)
EndRangeDone(rv, s, e, ml) == e >= Min(s + ml + 1, Len(rv) + 1)

\* line 618: any(start < seg_end and end > seg_start, seg_end in best_segments)
\* The call passes two positional arguments to any(), and the names seg_end
\* and seg_start are bound nowhere in the function or the notebook: the
\* first argument is evaluated first and raises NameError (with those
\* names bound as globals, any() would raise TypeError for its second
\* argument).  Every evaluation of the line ends in an exception; none
\* yields True or False.
AnyOverlap(s, e, segs) == "raise"

\* line 621: total_length + end - start > overall_max_length
OverBudget(tl, s, e, oml) == tl + e - s > oml

\* line 631: best_segment is None or best_value < minimum_value
NoValidSegment(bs, bv, mv) == bs = None \/ bv < mv

----------------------------------------------------------------------------
(* The call.                                                               *)

\* no second pair of invocations, no chunker call and no rerank call is
\* under way
NoCalls == <<>>

NoChunker == [pc |-> "idle"]

NoRerank == [pc |-> "idle"]

NoRetrieval == [pc |-> "idle"]

NoFeedback == [pc |-> "idle"]

\* lines 585, 602-604: the call with its arguments and fresh locals.
\* best_segment, best_value, start and end are unbound until line 607-613
\* assign them; the values given here are never read.
Init ==
    /\ \E in \in Inputs :
          /\ relevance_values = in.rv
          /\ max_length = in.ml
          /\ overall_max_length = in.oml
          /\ minimum_value = in.mv
    /\ calls = NoCalls
    /\ chunker = NoChunker
    /\ rerank = NoRerank
    /\ retrieval = NoRetrieval
    /\ feedback = NoFeedback
    /\ best_segments = <<>>
    /\ scores = <<>>
    /\ total_length = 0
    /\ best_segment = None
    /\ best_value = 0
    /\ start = 0
    /\ end = 0
    /\ pc = "while"

\* lines 605-609: the while test; a new search starts, or the loop ends and
\* line 639 returns
WhileTest ==
    /\ pc = "while"
    /\ IF total_length < overall_max_length
       THEN /\ best_segment' = None
            /\ best_value' = InitialBestValue
            /\ start' = 0
            /\ pc' = "for_start"
       ELSE /\ pc' = "returned"
            /\ UNCHANGED <<best_segment, best_value, start>>
    /\ UNCHANGED <<args, best_segments, scores, total_length, end, others>>

\* lines 609-613: one step of the outer for loop
ForStart ==
    /\ pc = "for_start"
    /\ IF start >= Len(relevance_values)
       THEN /\ pc' = "decide"
            /\ UNCHANGED <<start, end>>
       ELSE IF Negative(relevance_values[start + 1])
       THEN /\ start' = start + 1
            /\ UNCHANGED <<end, pc>>
       ELSE /\ end' = start + 1
            /\ pc' = "for_end"
            /\ UNCHANGED start
    /\ UNCHANGED <<args, best_segments, scores, total_length, best_segment,
                   best_value, others>>

\* lines 613-628: one step of the inner for loop, for the window (start, end)
ForEnd ==
    /\ pc = "for_end"
    /\ IF EndRangeDone(relevance_values, start, end, max_length)
       THEN /\ start' = start + 1
            /\ pc' = "for_start"
            /\ UNCHANGED <<end, best_segment, best_value>>
       ELSE IF Negative(relevance_values[end])
       THEN /\ end' = end + 1
            /\ UNCHANGED <<start, pc, best_segment, best_value>>
       ELSE LET overlap == AnyOverlap(start, end, best_segments)
                segment_value == SliceSum(relevance_values, start, end)
            IN  IF overlap = "raise"
                THEN /\ pc' = "raised"
                     /\ UNCHANGED <<start, end, best_segment, best_value>>
                ELSE IF overlap = "True"
                        \/ OverBudget(total_length, start, end,
                                      overall_max_length)
                        \/ ~(segment_value > best_value)
                THEN /\ end' = end + 1
                     /\ UNCHANGED <<start, pc, best_segment, best_value>>
                ELSE /\ best_value' = segment_value
                     /\ best_segment' = <<start, end>>
                     /\ end' = end + 1
                     /\ UNCHANGED <<start, pc>>
    /\ UNCHANGED <<args, best_segments, scores, total_length, others>>

\* lines 630-639: break and return, or append the segment and loop
Decide ==
    /\ pc = "decide"
    /\ IF NoValidSegment(best_segment, best_value, minimum_value)
       THEN /\ pc' = "returned"
            /\ UNCHANGED <<best_segments, scores, total_length>>
       ELSE /\ best_segments' = Append(best_segments, best_segment)
            /\ scores' = Append(scores, best_value)
            /\ total_length' = total_length + best_segment[2] - best_segment[1]
            /\ pc' = "while"
    /\ UNCHANGED <<args, best_segment, best_value, start, end, others>>

Next == WhileTest \/ ForStart \/ ForEnd \/ Decide

Spec == Init /\ [][Next]_vars

----------------------------------------------------------------------------
(* Vocabulary of the properties.                                           *)

\* the call is over: it returned (line 639) or an exception left it
Finished == pc \in {"returned", "raised"}

Returned == pc = "returned"

Raised == pc = "raised"

TypeOK ==
    /\ pc \in {"not_called", "while", "for_start", "for_end", "decide",
              "returned", "raised"}
    /\ Len(best_segments) = Len(scores)
    /\ total_length \in Nat

NonOverlapping(segs) ==
    \A i, j \in 1..Len(segs) :
        i # j => (segs[i][2] <= segs[j][1] \/ segs[j][2] <= segs[i][1])

RECURSIVE SumLengths(_)
SumLengths(segs) ==
    IF segs = <<>> THEN 0
    ELSE (Head(segs)[2] - Head(segs)[1]) + SumLengths(Tail(segs))

AllNegative(rv) == \A i \in 1..Len(rv) : rv[i] < 0

CalledWith(in) ==
    /\ relevance_values = in.rv
    /\ max_length = in.ml
    /\ overall_max_length = in.oml
    /\ minimum_value = in.mv

----------------------------------------------------------------------------
(* Claims.  The specification expects no exception for well-formed numeric *)
(* input (section 4.2, failure semantics), so a claim about what the call  *)
(* returns is stated of a call that ends by returning.                     *)

\* C1: every call yields its segment lists, and at every point of the call
\* (after each iteration of the selection loop and at return) no two of the
\* selected segments overlap: e1 <= s2 or e2 <= s1.
C1_NoOverlap ==
    /\ ~Raised
    /\ NonOverlapping(best_segments)

\* C2: a finished call has returned, and every returned segment (start, end)
\* satisfies 0 < end - start <= max_length.
C2_LengthBound ==
    Finished =>
        /\ Returned
        /\ \A i \in 1..Len(best_segments) :
              /\ 0 < best_segments[i][2] - best_segments[i][1]
              /\ best_segments[i][2] - best_segments[i][1] <= max_length

\* C3: the call never fails, and throughout it total_length is the sum of
\* the lengths of the segments selected so far and is at most
\* overall_max_length (for a budget overall_max_length >= 0).
C3_BudgetBound ==
    /\ ~Raised
    /\ total_length = SumLengths(best_segments)
    /\ overall_max_length >= 0 => total_length <= overall_max_length

\* C4: a finished call has returned, and every returned score is at least
\* minimum_value.
C4_ThresholdBound ==
    Finished =>
        /\ Returned
        /\ \A i \in 1..Len(scores) : scores[i] >= minimum_value

\* C5: a finished call has returned two lists of equal length, and the i-th
\* score is the sum of relevance_values over the i-th segment.
C5_ScoreIsSliceSum ==
    Finished =>
        /\ Returned
        /\ Len(best_segments) = Len(scores)
        /\ \A i \in 1..Len(scores) :
              scores[i] = SliceSum(relevance_values, best_segments[i][1],
                                   best_segments[i][2])

\* C6: a finished call has returned, and its scores are in non-increasing
\* order (selection order).
C6_ScoresNonIncreasing ==
    Finished =>
        /\ Returned
        /\ \A i, j \in 1..Len(scores) : i < j => scores[i] >= scores[j]

\* C7: a finished call has returned, and every returned segment starts and
\* ends on a chunk whose value is >= 0.
C7_NonNegativeEnds ==
    Finished =>
        /\ Returned
        /\ \A i \in 1..Len(best_segments) :
              /\ relevance_values[best_segments[i][1] + 1] >= 0
              /\ relevance_values[best_segments[i][2]] >= 0

C9_Scenario ==
    (Finished /\ CalledWith(ScenarioInput)) =>
        /\ Returned
        /\ Len(best_segments) >= 2
        /\ best_segments[1] = <<2, 4>> /\ scores[1] = 900
        /\ best_segments[2] = <<5, 6>> /\ scores[2] = 500

\* C10: for [-0.2, -0.2, 0.4, 0.8, -0.2] with max_length 5,
\* overall_max_length 5, minimum_value 0.5, the finished call has returned
\* exactly one segment, (2,4), with score 1.2.
C10_SingleSpike ==
    (Finished /\ CalledWith(SpikeInput)) =>
        /\ Returned
        /\ best_segments = << <<2, 4>> >>
        /\ scores = <<1200>>

----------------------------------------------------------------------------
(* Vocabulary of the claims about the search as a whole.                   *)

\* the windows section 4.2 step (a) of the specification admits, given the
\* segments selected so far and their total length
Admissible(rv, ml, oml, segs, tl) ==
    {w \in (0..(Len(rv) - 1)) \X (1..Len(rv)) :
        /\ w[1] < w[2]
        /\ w[2] - w[1] <= ml
        /\ rv[w[1] + 1] >= 0
        /\ rv[w[2]] >= 0
        /\ \A k \in 1..Len(segs) : w[2] <= segs[k][1] \/ segs[k][2] <= w[1]
        /\ tl + w[2] - w[1] <= oml}

WindowSum(rv, w) == SliceSum(rv, w[1], w[2])

\* w has the greatest value in A and is the first such window in the
\* order of enumeration (smallest start, then smallest end)
FirstBest(rv, w, A) ==
    /\ w \in A
    /\ \A v \in A :
          \/ WindowSum(rv, w) > WindowSum(rv, v)
          \/ /\ WindowSum(rv, w) = WindowSum(rv, v)
             /\ (w[1] < v[1] \/ (w[1] = v[1] /\ w[2] <= v[2]))

\* no two chunks of value >= 0 lie within one window of length ml
Isolated(rv, ml) ==
    \A i, j \in 1..Len(rv) :
        (i < j /\ rv[i] >= 0 /\ rv[j] >= 0) => j - i >= ml

\* the chunks (0-based) of value >= 0 and >= mv
Qualifying(rv, mv) ==
    {i \in 0..(Len(rv) - 1) : rv[i + 1] >= 0 /\ rv[i + 1] >= mv}

\* the first k chunks of S by descending value, ties by ascending index,
\* each as a segment of length 1
RECURSIVE TopK(_, _, _)
TopK(rv, S, k) ==
    IF S = {} \/ k <= 0 THEN <<>>
    ELSE LET b == CHOOSE i \in S :
                      \A j \in S : \/ rv[i + 1] > rv[j + 1]
                                   \/ (rv[i + 1] = rv[j + 1] /\ i <= j)
         IN  <<<<b, b + 1>>>> \o TopK(rv, S \ {b}, k - 1)

InBody == pc \in {"for_start", "for_end", "decide"}

----------------------------------------------------------------------------
C12_TopKDegeneration ==
    (Finished /\ max_length >= 1 /\ Isolated(relevance_values, max_length)) =>
        /\ Returned
        /\ best_segments =
              TopK(relevance_values, Qualifying(relevance_values, minimum_value),
                   overall_max_length)

\* C18: no step of the call raises, and every step that selects a segment
\* selects the admissible window of greatest value, the first in
\* enumeration order among those tied for it.
C18_GreedyChoice ==
    [][/\ ~Raised'
       /\ Len(best_segments') > Len(best_segments) =>
              /\ best_segments' = Append(best_segments, best_segment)
              /\ FirstBest(relevance_values, best_segment,
                           Admissible(relevance_values, max_length,
                                      overall_max_length, best_segments,
                                      total_length))]_vars

\* C19: when the call is over, either the budget is used up
\* (total_length = overall_max_length) or no admissible window of value
\* >= minimum_value is left.
C19_StopCondition ==
    Finished =>
        \/ total_length = overall_max_length
        \/ ~\E w \in Admissible(relevance_values, max_length,
                                 overall_max_length, best_segments,
                                 total_length) :
                WindowSum(relevance_values, w) >= minimum_value

\* C20: every pass through the loop body ends either in the break (and the
\* return) or in the selection of a segment that strictly increases
\* total_length, which stays within overall_max_length; the number of
\* selected segments is at most min(overall_max_length,
\* len(relevance_values)) for a budget >= 0.
C20_IterationBreaksOrSelects ==
    [][/\ (InBody /\ ~InBody') =>
              \/ pc' = "returned"
              \/ /\ pc' = "while"
                 /\ total_length' > total_length
                 /\ total_length' <= overall_max_length
       /\ overall_max_length >= 0 =>
              Len(best_segments') <= Min(overall_max_length,
                                         Len(relevance_values))]_vars

----------------------------------------------------------------------------
(* Vocabulary of the claims about what the search selects.                 *)

Max(a, b) == IF a > b THEN a ELSE b

\* [a, n, b] with a > 0, b > 0, n < 0 and a + n + b > max(a, b)
Sandwich(rv) ==
    /\ Len(rv) = 3
    /\ rv[1] > 0 /\ rv[2] < 0 /\ rv[3] > 0
    /\ rv[1] + rv[2] + rv[3] > Max(rv[1], rv[3])

\* an input on which the search of section 4.2 selects (0,3), of value
\* 0.005, and then nothing, while (0,1) and (2,3) together are worth 0.006
GreedyInput == [rv |-> <<3, -1, 3>>, ml |-> 3, oml |-> 3, mv |-> 2]

RECURSIVE SeqSum(_)
SeqSum(q) == IF q = <<>> THEN 0 ELSE Head(q) + SeqSum(Tail(q))

\* the windows that satisfy the length, budget, end-value and minimum_value
\* constraints on their own
ValidWindows(rv, ml, oml, mv) ==
    {w \in Admissible(rv, ml, oml, <<>>, 0) : WindowSum(rv, w) >= mv}

RECURSIVE SetLength(_)
SetLength(S) ==
    IF S = {} THEN 0
    ELSE LET w == CHOOSE v \in S : TRUE
         IN  (w[2] - w[1]) + SetLength(S \ {w})

RECURSIVE SetTotal(_, _)
SetTotal(rv, S) ==
    IF S = {} THEN 0
    ELSE LET w == CHOOSE v \in S : TRUE
         IN  WindowSum(rv, w) + SetTotal(rv, S \ {w})

\* the sets of pairwise non-overlapping valid windows within the budget
ValidSets(rv, ml, oml, mv) ==
    {S \in SUBSET ValidWindows(rv, ml, oml, mv) :
        /\ \A v, w \in S : v # w => (v[2] <= w[1] \/ w[2] <= v[1])
        /\ SetLength(S) <= oml}

\* some valid set of windows is worth strictly more than the scores total
BetterSetExists ==
    \E S \in ValidSets(relevance_values, max_length, overall_max_length,
                       minimum_value) :
        SetTotal(relevance_values, S) > SeqSum(scores)

\* all N values strictly positive, N > max_length >= 1,
\* overall_max_length >= N and minimum_value <= the smallest value
LongRelevantRun ==
    /\ Len(relevance_values) > max_length
    /\ max_length >= 1
    /\ overall_max_length >= Len(relevance_values)
    /\ \A i \in 1..Len(relevance_values) :
          relevance_values[i] > 0 /\ minimum_value <= relevance_values[i]

\* the selected segments that hold chunk i (0-based)
Covering(i) ==
    {k \in 1..Len(best_segments) :
        best_segments[k][1] <= i /\ i < best_segments[k][2]}

----------------------------------------------------------------------------
\* C21: for relevance_values [a, n, b] with a > 0, b > 0, n < 0 and
\* a + n + b > max(a, b), and max_length >= 3, overall_max_length >= 3,
\* minimum_value <= a + n + b, the finished call has returned exactly one
\* segment, (0,3), with score a + n + b.
C21_SandwichedNegativeIncluded ==
    (/\ Finished
     /\ Sandwich(relevance_values)
     /\ max_length >= 3
     /\ overall_max_length >= 3
     /\ minimum_value <= SliceSum(relevance_values, 0, 3)) =>
        /\ Returned
        /\ best_segments = << <<0, 3>> >>
        /\ scores = <<SliceSum(relevance_values, 0, 3)>>

\* C22: there is an input on which the finished call has returned a set of
\* segments that some other set of pairwise non-overlapping windows, under
\* the same length, budget, end-value and minimum_value constraints, beats
\* in total score; [0.003, -0.001, 0.003] with max_length 3,
\* overall_max_length 3 and minimum_value 0.002 is such an input.
C22_GreedyNotOptimal ==
    (Finished /\ CalledWith(GreedyInput)) =>
        /\ Returned
        /\ BetterSetExists

\* what the call does instead: whenever it returns, no valid set of windows
\* is worth more than what it returned
ReturnedSetIsOptimal == Returned => ~BetterSetExists

\* C23: when all N values are strictly positive, N > max_length >= 1,
\* overall_max_length >= N and minimum_value <= the smallest value, the
\* finished call has returned at least two segments, each of length
\* <= max_length, that together hold every index 0..N-1 exactly once.
C23_LongRunSplit ==
    (Finished /\ LongRelevantRun) =>
        /\ Returned
        /\ Len(best_segments) >= 2
        /\ \A k \in 1..Len(best_segments) :
              best_segments[k][2] - best_segments[k][1] <= max_length
        /\ \A i \in 0..(Len(relevance_values) - 1) :
              Cardinality(Covering(i)) = 1

\* C27: a finished call has returned, and every returned segment
\* (start, end) satisfies 0 <= start < end <= len(relevance_values), so
\* that chunks start .. end-1 all exist.
C27_SegmentsInRange ==
    Finished =>
        /\ Returned
        /\ \A k \in 1..Len(best_segments) :
              /\ 0 <= best_segments[k][1]
              /\ best_segments[k][1] < best_segments[k][2]
              /\ best_segments[k][2] <= Len(relevance_values)

\* C29: a finished call has returned, and no sub-window of a returned
\* segment whose first and last chunk values are non-negative has a
\* strictly greater sum than the segment; in particular the score of the
\* segment is >= the value of each of its two end chunks.
C29_LocallyOptimal ==
    Finished =>
        /\ Returned
        /\ \A k \in 1..Len(best_segments) :
              LET seg == best_segments[k]
              IN  /\ \A s \in seg[1]..(seg[2] - 1) : \A e \in (s + 1)..seg[2] :
                        (relevance_values[s + 1] >= 0 /\ relevance_values[e] >= 0)
                            => SliceSum(relevance_values, s, e) <= scores[k]
                  /\ scores[k] >= relevance_values[seg[1] + 1]
                  /\ scores[k] >= relevance_values[seg[2]]

----------------------------------------------------------------------------
(* split_text_to_chunks_with_indices of                                    *)
(* all_rag_techniques/context_enrichment_window_around_chunk.ipynb, lines  *)
(* 130-138.  A text is a sequence of characters; the state of the call is  *)
(* the record chunker.  A Document is the record of its page_content and   *)
(* its metadata fields index and text.                                     *)

MaxTextLen == 4

MaxChunkSize == 3

\* bound on the number of chunks of a call whose loop does not end
ChunkCap == 6

Alphabet == {"a", "b"}

RECURSIVE TextsUpTo(_)
TextsUpTo(n) ==
    IF n = 0 THEN {<<>>}
    ELSE LET shorter == TextsUpTo(n - 1)
         IN  shorter \cup {Append(t, ch) : t \in {u \in shorter : Len(u) = n - 1},
                                           ch \in Alphabet}

ChunkerInputs ==
    [text : TextsUpTo(MaxTextLen), chunk_size : 0..MaxChunkSize,
     chunk_overlap : 0..(MaxChunkSize + 1)]

\* the search is not called
IdleSearch ==
    /\ relevance_values = <<>>
    /\ max_length = 0
    /\ overall_max_length = 0
    /\ minimum_value = 0
    /\ best_segments = <<>>
    /\ scores = <<>>
    /\ total_length = 0
    /\ best_segment = None
    /\ best_value = 0
    /\ start = 0
    /\ end = 0
    /\ pc = "not_called"

search == <<relevance_values, max_length, overall_max_length, minimum_value,
            best_segments, scores, total_length, best_segment, best_value,
            start, end, pc>>

\* the position a slice bound i denotes in a sequence of length n: a
\* negative bound counts from the end, and both are clamped to 0..n
SliceBound(i, n) == IF i < 0 THEN Max(n + i, 0) ELSE Min(i, n)

\* text[s:e], a Python slice (line 135)
Slice(text, s, e) ==
    SubSeq(text, SliceBound(s, Len(text)) + 1, SliceBound(e, Len(text)))

\* line 134 with the end taken one character too far
ChunkEndOffByOne(s, size) == s + size + 1

\* end = start + chunk_size (line 134)
ChunkEnd(s, size) == s + size

\* line 137 with the overlap left out of the step
ChunkAdvanceNoOverlap(s, size, overlap) == s + size

\* start += chunk_size - chunk_overlap (line 137)
ChunkAdvance(s, size, overlap) == s + size - overlap

\* lines 130-132
InitChunker ==
    /\ \E in \in ChunkerInputs :
          chunker = [pc |-> "while", text |-> in.text,
                     chunk_size |-> in.chunk_size,
                     chunk_overlap |-> in.chunk_overlap,
                     chunks |-> <<>>, start |-> 0]
    /\ IdleSearch
    /\ calls = NoCalls
    /\ rerank = NoRerank
    /\ retrieval = NoRetrieval
    /\ feedback = NoFeedback

\* lines 133-137: one pass of the while loop
ChunkerLoop ==
    /\ chunker.pc = "while"
    /\ chunker.start < Len(chunker.text)
    /\ Len(chunker.chunks) < ChunkCap
    /\ LET chunk == Slice(chunker.text, chunker.start,
                          ChunkEnd(chunker.start, chunker.chunk_size))
           doc == [page_content |-> chunk, index |-> Len(chunker.chunks),
                   text |-> chunker.text]
       IN  chunker' = [chunker EXCEPT
                          !.chunks = Append(@, doc),
                          !.start = ChunkAdvance(@, chunker.chunk_size,
                                                 chunker.chunk_overlap)]
    /\ UNCHANGED <<search, calls, rerank, retrieval, feedback>>

\* lines 133, 138: the loop test fails and the chunks are returned
ChunkerReturn ==
    /\ chunker.pc = "while"
    /\ ~(chunker.start < Len(chunker.text))
    /\ chunker' = [chunker EXCEPT !.pc = "returned"]
    /\ UNCHANGED <<search, calls, rerank, retrieval, feedback>>

NextChunker == ChunkerLoop \/ ChunkerReturn

SpecChunker == InitChunker /\ [][NextChunker]_vars

\* the statements of the function run one after the other: a call that can
\* take its next step takes it
SpecChunkerFair == SpecChunker /\ WF_vars(NextChunker)

\* the page_content of chunks s .. e-1 (0-based), joined with no separator
RECURSIVE ConcatChunks(_, _, _)
ConcatChunks(chunks, s, e) ==
    IF s >= e THEN <<>>
    ELSE chunks[s + 1].page_content \o ConcatChunks(chunks, s + 1, e)

\* C16: for a text split with chunk_overlap = 0, the returned chunks carry
\* the indices 0, 1, 2, ... in order with no gap, and for every
\* 0 <= s < e <= number of chunks the concatenation of chunks s .. e-1 is
\* the substring of the text from offset s * chunk_size to offset
\* min(e * chunk_size, len(text)).
C16_ConcatRoundTrip ==
    (chunker.pc = "returned" /\ chunker.chunk_overlap = 0) =>
        LET n == Len(chunker.chunks)
        IN  /\ \A k \in 1..n : chunker.chunks[k].index = k - 1
            /\ \A s \in 0..(n - 1) : \A e \in (s + 1)..n :
                  ConcatChunks(chunker.chunks, s, e) =
                      SubSeq(chunker.text, s * chunker.chunk_size + 1,
                             Min(e * chunker.chunk_size, Len(chunker.text)))
            /\ ConcatChunks(chunker.chunks, 0, n) = chunker.text

\* C16 witness: a text of two different characters split without overlap
\* into two or more chunks, the last one shorter than chunk_size.
C16_Witness ==
    /\ chunker.pc = "returned"
    /\ chunker.chunk_overlap = 0
    /\ chunker.chunk_size >= 2
    /\ Len(chunker.chunks) >= 2
    /\ Len(chunker.chunks[Len(chunker.chunks)].page_content)
          < chunker.chunk_size
    /\ \E i, j \in 1..Len(chunker.text) : chunker.text[i] # chunker.text[j]

\* a / b rounded up, for b > 0
Ceil(a, b) == (a + b - 1) \div b

\* the step of the loop is positive
Advances == chunker.chunk_size > chunker.chunk_overlap

\* C30: the call returns exactly when the text is empty or
\* chunk_size > chunk_overlap: in those cases it does return, and for
\* chunk_size > chunk_overlap >= 0 with
\* ceil(len(text) / (chunk_size - chunk_overlap)) chunks whose metadata
\* indices are 0, 1, 2, ... in order; for a non-empty text with
\* chunk_overlap >= chunk_size it never returns.
C30_TerminatesIffAdvances ==
    /\ [](chunker.pc = "returned" =>
             /\ chunker.text = <<>> \/ Advances
             /\ Advances =>
                   /\ Len(chunker.chunks) =
                         Ceil(Len(chunker.text),
                              chunker.chunk_size - chunker.chunk_overlap)
                   /\ \A k \in 1..Len(chunker.chunks) :
                         chunker.chunks[k].index = k - 1)
    /\ (chunker.pc = "while" /\ (chunker.text = <<>> \/ Advances))
           ~> (chunker.pc = "returned")

\* C30 witness: a text of four characters split with chunk_size 3 and
\* chunk_overlap 2 has returned its four chunks.
C30_Witness ==
    /\ chunker.pc = "returned"
    /\ chunker.chunk_overlap = 2
    /\ chunker.chunk_size = 3
    /\ Len(chunker.text) = 4
    /\ Len(chunker.chunks) = 4
    /\ chunker.chunks[4].index = 3

----------------------------------------------------------------------------
(* retrieve_with_context_overlap and get_chunk_by_index of                 *)
(* all_rag_techniques/context_enrichment_window_around_chunk.ipynb (lines  *)
(* 260-307 and 202-219).  The vector store holds the chunks the chunker    *)
(* returned; the retriever is an external service whose answer is an       *)
(* input, a list of chunks of the store.  The state of the call is the     *)
(* record retrieval.                                                       *)

MaxNeighbors == 2

MaxRelevant == 1

\* what retriever.get_relevant_documents can answer (line 276)
RelevantChunks(chunks) ==
    UNION {[1..k -> {chunks[j] : j \in 1..Len(chunks)}] : k \in 0..MaxRelevant}

\* lines 289-293: the chunks of index i .. e-1 that get_chunk_by_index
\* finds in the store (lines 215-219: the first document of that index, or
\* None, which line 292 drops)
RECURSIVE NeighborChunks(_, _, _)
NeighborChunks(chunks, i, e) ==
    IF i >= e THEN <<>>
    ELSE LET found == {k \in 1..Len(chunks) : chunks[k].index = i}
             first == CHOOSE k \in found : \A j \in found : k <= j
         IN  (IF found = {} THEN <<>> ELSE <<chunks[first]>>)
                 \o NeighborChunks(chunks, i + 1, e)

\* d put into a list sorted by index, after the documents of the same index
RECURSIVE InsertByIndex(_, _)
InsertByIndex(d, docs) ==
    IF docs = <<>> THEN <<d>>
    ELSE IF d.index < Head(docs).index THEN <<d>> \o docs
    ELSE <<Head(docs)>> \o InsertByIndex(d, Tail(docs))

\* neighbor_chunks.sort(key=index) (line 296), a stable sort
RECURSIVE SortByIndex(_)
SortByIndex(docs) ==
    IF docs = <<>> THEN <<>>
    ELSE InsertByIndex(docs[Len(docs)], SortByIndex(SubSeq(docs, 1, Len(docs) - 1)))

\* lines 300-303: the chunks i .. of neighbor_chunks joined to
\* concatenated_text, each after cutting chunk_overlap characters off the
\* end of the text built so far
RECURSIVE ConcatenateFrom(_, _, _, _)
ConcatenateFrom(concatenated_text, neighbor_chunks, i, chunk_overlap) ==
    IF i > Len(neighbor_chunks) THEN concatenated_text
    ELSE LET current_chunk == neighbor_chunks[i].page_content
             overlap_start == Max(0, Len(concatenated_text) - chunk_overlap)
         IN  ConcatenateFrom(Slice(concatenated_text, 0, overlap_start)
                                 \o current_chunk,
                             neighbor_chunks, i + 1, chunk_overlap)

\* lines 285-303: the sequence built around the chunk of index
\* current_index
ContextSequence(chunks, current_index, num_neighbors, chunk_overlap) ==
    LET start_index == Max(0, current_index - num_neighbors)
        end_index == current_index + num_neighbors + 1
        neighbor_chunks ==
            SortByIndex(NeighborChunks(chunks, start_index, end_index))
    IN  ConcatenateFrom(neighbor_chunks[1].page_content, neighbor_chunks, 2,
                        chunk_overlap)

\* lines 260, 276-277: the call, on the store of the chunks just returned
RetrieveCall ==
    /\ chunker.pc = "returned"
    /\ retrieval.pc = "idle"
    /\ \E rel \in RelevantChunks(chunker.chunks) :
       \E n \in 0..MaxNeighbors : \E ov \in 0..MaxChunkSize :
          retrieval' = [pc |-> "for", relevant_chunks |-> rel,
                        num_neighbors |-> n, chunk_overlap |-> ov,
                        i |-> 0, result_sequences |-> <<>>]
    /\ UNCHANGED <<search, calls, chunker, rerank, feedback>>

\* lines 279-305: one pass of the loop over relevant_chunks (every chunk of
\* the store carries an index, so line 282 is not taken)
RetrieveChunk ==
    /\ retrieval.pc = "for"
    /\ retrieval.i < Len(retrieval.relevant_chunks)
    /\ LET chunk == retrieval.relevant_chunks[retrieval.i + 1]
       IN  retrieval' =
               [retrieval EXCEPT
                   !.result_sequences =
                       Append(@, ContextSequence(chunker.chunks, chunk.index,
                                                 retrieval.num_neighbors,
                                                 retrieval.chunk_overlap)),
                   !.i = @ + 1]
    /\ UNCHANGED <<search, calls, chunker, rerank, feedback>>

\* line 307
RetrieveReturn ==
    /\ retrieval.pc = "for"
    /\ retrieval.i >= Len(retrieval.relevant_chunks)
    /\ retrieval' = [retrieval EXCEPT !.pc = "returned"]
    /\ UNCHANGED <<search, calls, chunker, rerank, feedback>>

NextRetrieve ==
    \/ ChunkerLoop
    \/ ChunkerReturn
    \/ RetrieveCall
    \/ RetrieveChunk
    \/ RetrieveReturn

SpecRetrieve == InitChunker /\ [][NextRetrieve]_vars

\* the offsets in the text at which chunk k starts and ends
StartOffset(k) == k * (chunker.chunk_size - chunker.chunk_overlap)

EndOffset(k) == Min(StartOffset(k) + chunker.chunk_size, Len(chunker.text))

\* the text from the start of chunk max(0, c-n) to the end of chunk
\* min(c+n, last index)
ContiguousText(c, n) ==
    SubSeq(chunker.text, StartOffset(Max(0, c - n)) + 1,
           EndOffset(Min(c + n, Len(chunker.chunks) - 1)))

\* C25: for chunks split with 0 <= chunk_overlap < chunk_size and the same
\* chunk_overlap passed to the retrieval, the sequence built for a
\* retrieved chunk of index c with num_neighbors n is the text from the
\* start offset of chunk max(0, c-n) to the end offset of chunk
\* min(c+n, last index), for every c.
C25_ContiguousText ==
    (/\ retrieval.pc # "idle"
     /\ chunker.chunk_overlap < chunker.chunk_size
     /\ retrieval.chunk_overlap = chunker.chunk_overlap) =>
        \A j \in 1..Len(retrieval.result_sequences) :
            retrieval.result_sequences[j] =
                ContiguousText(retrieval.relevant_chunks[j].index,
                               retrieval.num_neighbors)

----------------------------------------------------------------------------
(* rerank_chunks (simple_rag.ipynb, lines 382-410), transform (lines       *)
(* 369-380) and the cell that subtracts the penalty and calls              *)
(* get_best_segments (lines 651-663).  The state of the call is the record *)
(* rerank.  The reranker is an external service: its result is an input,   *)
(* a list of (index, relevance_score) with distinct indices, by descending *)
(* relevance_score.  Raw scores and chunk values are in thousandths.       *)

MaxDocs == 3

RawScores == {0, 100, 500, 1000}

PenaltySet == {0, 200, 500}

\* decay_rate = 30 (line 396)
DecayRate == 30

\* max_length = 20 (line 655)
CellMaxLength == 20

\* overall_max_length = 30 (line 656)
CellOverallMaxLength == 30

\* minimum_value = 0.7 (line 657), in thousandths
CellMinimumValue == 700

\* beta.cdf(x, 0.4, 0.4) (lines 379-380) at the raw scores 0, 0.1, 0.5
\* and 1, in thousandths: the regularised incomplete beta function is 0 at
\* 0, 0.2397 at 0.1, 0.5 at 0.5 and 1 at 1
transform(x) ==
    CASE x = 0 -> 0
      [] x = 100 -> 240
      [] x = 500 -> 500
      [] x = 1000 -> 1000

\* exp(-1/decay_rate) in ten-thousandths, by the series 1 - 1/d + 1/(2 d^2)
\* - 1/(6 d^3): 9672 for d = 30
ExpStep ==
    10000 - (10000 \div DecayRate)
            + (10000 \div (2 * DecayRate * DecayRate))
            - (10000 \div (6 * DecayRate * DecayRate * DecayRate))

\* np.exp(-i/decay_rate) (line 409) in ten-thousandths
RECURSIVE ExpDecay(_)
ExpDecay(i) ==
    IF i = 0 THEN 10000 ELSE (ExpDecay(i - 1) * ExpStep) \div 10000

\* line 409 without the decay factor
ChunkValueNoDecay(i, x) == transform(x)

\* np.exp(-i/decay_rate)*absolute_relevance_value (lines 407, 409), in
\* thousandths, rounded down
ChunkValue(i, x) == (ExpDecay(i) * transform(x)) \div 10000

\* lines 404-405 with the lists filled with a low sentinel instead of 0
LowSentinels(n) == [k \in 1..n |-> -1000]

\* [0]*len(chunks) (lines 404-405)
Zeros(n) == [k \in 1..n |-> 0]

\* what client.rerank can answer for n documents: k <= n results with
\* distinct indices, by descending relevance_score
RerankResults(n) ==
    UNION {{r \in [1..k -> [index : 0..(n - 1), relevance_score : RawScores]] :
              /\ \A a, b \in 1..k : a # b => r[a].index # r[b].index
              /\ \A a, b \in 1..k :
                    a < b => r[a].relevance_score >= r[b].relevance_score}
           : k \in 0..n}

\* lines 394-405
InitRerank ==
    /\ \E n \in 1..MaxDocs : \E res \in RerankResults(n) :
       \E pen \in PenaltySet :
          rerank = [pc |-> "loop", n |-> n, results |-> res, i |-> 0,
                    similarity_scores |-> Zeros(n), chunk_values |-> Zeros(n),
                    irrelevant_chunk_penalty |-> pen]
    /\ IdleSearch
    /\ calls = NoCalls
    /\ chunker = NoChunker
    /\ retrieval = NoRetrieval
    /\ feedback = NoFeedback

\* lines 406-409: one pass of the for loop, for the result of rank i
RerankLoop ==
    /\ rerank.pc = "loop"
    /\ rerank.i < Len(rerank.results)
    /\ LET result == rerank.results[rerank.i + 1]
           absolute_relevance_value == transform(result.relevance_score)
       IN  rerank' = [rerank EXCEPT
                         !.similarity_scores[result.index + 1] =
                             absolute_relevance_value,
                         !.chunk_values[result.index + 1] =
                             ChunkValue(rerank.i, result.relevance_score),
                         !.i = @ + 1]
    /\ UNCHANGED <<search, calls, chunker, retrieval, feedback>>

\* line 410
RerankReturn ==
    /\ rerank.pc = "loop"
    /\ rerank.i >= Len(rerank.results)
    /\ rerank' = [rerank EXCEPT !.pc = "returned"]
    /\ UNCHANGED <<search, calls, chunker, retrieval, feedback>>

\* lines 652-663 and 602-604: the penalty is subtracted from every chunk
\* value and get_best_segments is called with the constants of the cell
PenaltyCell ==
    /\ rerank.pc = "returned"
    /\ pc = "not_called"
    /\ relevance_values' =
          [k \in 1..rerank.n |->
              rerank.chunk_values[k] - rerank.irrelevant_chunk_penalty]
    /\ max_length' = CellMaxLength
    /\ overall_max_length' = CellOverallMaxLength
    /\ minimum_value' = CellMinimumValue
    /\ best_segments' = <<>>
    /\ scores' = <<>>
    /\ total_length' = 0
    /\ pc' = "while"
    /\ UNCHANGED <<best_segment, best_value, start, end, others>>

NextRerank ==
    \/ RerankLoop
    \/ RerankReturn
    \/ PenaltyCell
    \/ WhileTest
    \/ ForStart
    \/ ForEnd
    \/ Decide

SpecRerank == InitRerank /\ [][NextRerank]_vars

\* the chunks (0-based) the reranker scored
Scored == {rerank.results[k].index : k \in 1..Len(rerank.results)}

\* the ranks whose result the loop has written so far
Written == 1..rerank.i

\* C17 (as claimed): every chunk value written is at most the value of raw
\* relevance 1.0 at rank 0, and of two results with the same raw relevance
\* the one of greater rank has the strictly smaller chunk value.
C17_RankStrictlyDecreases ==
    \A a, b \in Written :
        /\ rerank.chunk_values[rerank.results[a].index + 1]
              <= ChunkValue(0, 1000)
        /\ (a < b /\ rerank.results[a].relevance_score
                        = rerank.results[b].relevance_score) =>
               rerank.chunk_values[rerank.results[a].index + 1]
                   > rerank.chunk_values[rerank.results[b].index + 1]

\* C17 (amended): every chunk value written is at most the value of raw
\* relevance 1.0 at rank 0; of two results with the same raw relevance the
\* one of greater rank has the strictly smaller chunk value when the
\* transformed relevance is positive, and both have the value 0 when it
\* is 0.
C17_RankDecreasesWhenPositive ==
    \A a, b \in Written :
        /\ rerank.chunk_values[rerank.results[a].index + 1]
              <= ChunkValue(0, 1000)
        /\ (a < b /\ rerank.results[a].relevance_score
                        = rerank.results[b].relevance_score) =>
               IF transform(rerank.results[a].relevance_score) > 0
               THEN rerank.chunk_values[rerank.results[a].index + 1]
                        > rerank.chunk_values[rerank.results[b].index + 1]
               ELSE /\ rerank.chunk_values[rerank.results[a].index + 1] = 0
                    /\ rerank.chunk_values[rerank.results[b].index + 1] = 0

\* C17 witness: the loop has written three results of the same positive
\* raw relevance, at ranks 0, 1 and 2.
C17_Witness ==
    /\ rerank.pc = "returned"
    /\ Len(rerank.results) >= 3
    /\ rerank.i = Len(rerank.results)
    /\ \A a \in 1..3 : rerank.results[a].relevance_score = 500

\* the chunks (0-based) whose result the loop has written so far
WrittenIndices(rr) == {rr.results[r].index : r \in 1..rr.i}

\* C24: chunk_values has one entry per input chunk, in original document
\* order: the chunk of original index k found at position r of the reranked
\* list has chunk_values[k] = exp(-r/decay_rate) * transform(score), every
\* chunk not written keeps the value 0, and a pass of the loop writes one
\* entry, which no earlier pass wrote, and leaves the others alone.
C24_ChunkValuesByOriginalIndex ==
    [][rerank'.pc # "idle" =>
          /\ Len(rerank'.chunk_values) = rerank'.n
          /\ \A r \in 1..rerank'.i :
                rerank'.chunk_values[rerank'.results[r].index + 1] =
                    ChunkValue(r - 1, rerank'.results[r].relevance_score)
          /\ \A k \in 0..(rerank'.n - 1) :
                k \notin WrittenIndices(rerank') =>
                    rerank'.chunk_values[k + 1] = 0
          /\ rerank'.i > rerank.i =>
                LET k == rerank.results[rerank.i + 1].index
                IN  /\ k \notin WrittenIndices(rerank)
                    /\ \A j \in 0..(rerank.n - 1) :
                          j # k => rerank'.chunk_values[j + 1]
                                      = rerank.chunk_values[j + 1]]_vars

\* C24 witness: of three chunks the reranker returned two, the later chunk
\* of the document first, both with a positive score; the loop has written
\* both and the third chunk kept the value 0.
C24_Witness ==
    /\ rerank.pc = "returned"
    /\ rerank.n = 3
    /\ Len(rerank.results) = 2
    /\ rerank.results[1].index > rerank.results[2].index
    /\ rerank.results[2].relevance_score > 0
    /\ \E k \in 1..3 : (k - 1) \notin Scored /\ rerank.chunk_values[k] = 0
    /\ rerank.chunk_values[rerank.results[2].index + 1]
          = ChunkValue(1, rerank.results[2].relevance_score)

\* C15: a finished call of the cell has returned, and every returned
\* segment starts and ends on a chunk the reranker scored, whatever the
\* penalty >= 0.
C15_UnscoredNeverAtEnds ==
    (rerank.pc = "returned" /\ Finished) =>
        /\ Returned
        /\ \A k \in 1..Len(best_segments) :
              /\ best_segments[k][1] \in Scored
              /\ (best_segments[k][2] - 1) \in Scored

----------------------------------------------------------------------------
(* adjust_relevance_scores of                                              *)
(* all_rag_techniques/retrieval_with_feedback_loop.ipynb (lines 261-302).  *)
(* The string literal opened at line 265 is read as closed before the      *)
(* parenthesis of line 273, which is what the layout of the call shows.    *)
(* A document is the record of its position in the argument list (id) and  *)
(* its metadata field relevance_score, in thousandths; a feedback entry is *)
(* the record of its field relevance.  The language model is an external   *)
(* service: the answer it gives to each check is an input, a string (the   *)
(* field of line 259 is a str whose title asks for 'Yes' or 'No').  The    *)
(* state of the call is the record feedback.                               *)

MaxFeedbackDocs == 2

MaxFeedback == 2

ScoreSet == {300, 600}

RelevanceSet == {1, 3, 5}

Answers == {"Yes", "No", "yes"}

FeedbackDocs ==
    UNION {[1..n -> ScoreSet] : n \in 1..MaxFeedbackDocs}

FeedbackData ==
    UNION {[1..n -> [relevance : RelevanceSet]] : n \in 0..MaxFeedback}

\* line 293 with the answer compared as the model is asked to give it
IsRelevantCapitalised(result) == result = "Yes"

\* result == 'yes' (line 293)
IsRelevant(result) == result = "yes"

RECURSIVE SumRelevance(_)
SumRelevance(fs) ==
    IF fs = <<>> THEN 0 ELSE Head(fs).relevance + SumRelevance(Tail(fs))

\* lines 298-299: relevance_score * ((sum / len) / 3), in thousandths,
\* rounded down
Adjusted(relevance_score, relevant_feedback) ==
    (relevance_score * SumRelevance(relevant_feedback))
        \div (3 * Len(relevant_feedback))

\* d put into a list sorted by descending relevance_score, after the
\* documents of the same score
RECURSIVE InsertByScore(_, _)
InsertByScore(d, docs) ==
    IF docs = <<>> THEN <<d>>
    ELSE IF d.relevance_score > Head(docs).relevance_score THEN <<d>> \o docs
    ELSE <<Head(docs)>> \o InsertByScore(d, Tail(docs))

\* sorted(docs, key=relevance_score, reverse=True) (line 302), which keeps
\* the documents of equal score in their order
RECURSIVE SortedByScore(_)
SortedByScore(docs) ==
    IF docs = <<>> THEN <<>>
    ELSE InsertByScore(docs[Len(docs)],
                       SortedByScore(SubSeq(docs, 1, Len(docs) - 1)))

\* line 261: the call; answers records what the model answered to the
\* check of each document against each feedback entry
InitFeedback ==
    /\ \E sc \in FeedbackDocs : \E fd \in FeedbackData :
          feedback = [pc |-> "for_doc",
                      initial_scores |-> sc,
                      docs |-> [k \in 1..Len(sc) |->
                                   [id |-> k, relevance_score |-> sc[k]]],
                      feedback_data |-> fd,
                      d |-> 0, f |-> 0, relevant_feedback |-> <<>>,
                      answers |-> [k \in 1..Len(sc) |->
                                      [j \in 1..Len(fd) |-> "none"]],
                      result |-> <<>>]
    /\ IdleSearch
    /\ calls = NoCalls
    /\ chunker = NoChunker
    /\ rerank = NoRerank
    /\ retrieval = NoRetrieval

\* lines 279-280: the next document, with no relevant feedback yet
FeedbackDoc ==
    /\ feedback.pc = "for_doc"
    /\ feedback.d < Len(feedback.docs)
    /\ feedback' = [feedback EXCEPT !.relevant_feedback = <<>>, !.f = 0,
                                    !.pc = "for_feedback"]
    /\ UNCHANGED <<search, calls, chunker, rerank, retrieval>>

\* lines 283-294: the model is asked about one feedback entry
FeedbackCheck ==
    /\ feedback.pc = "for_feedback"
    /\ feedback.f < Len(feedback.feedback_data)
    /\ \E result \in Answers :
          feedback' =
              [feedback EXCEPT
                  !.relevant_feedback =
                      IF IsRelevant(result)
                      THEN Append(@, feedback.feedback_data[feedback.f + 1])
                      ELSE @,
                  !.answers[feedback.d + 1][feedback.f + 1] = result,
                  !.f = @ + 1]
    /\ UNCHANGED <<search, calls, chunker, rerank, retrieval>>

\* lines 296-299: the score of the document is adjusted if some feedback
\* was found relevant
FeedbackAdjust ==
    /\ feedback.pc = "for_feedback"
    /\ feedback.f >= Len(feedback.feedback_data)
    /\ feedback' =
          [feedback EXCEPT
              !.docs[feedback.d + 1].relevance_score =
                  IF feedback.relevant_feedback # <<>>
                  THEN Adjusted(@, feedback.relevant_feedback)
                  ELSE @,
              !.d = @ + 1,
              !.pc = "for_doc"]
    /\ UNCHANGED <<search, calls, chunker, rerank, retrieval>>

\* line 302
FeedbackReturn ==
    /\ feedback.pc = "for_doc"
    /\ feedback.d >= Len(feedback.docs)
    /\ feedback' = [feedback EXCEPT !.result = SortedByScore(feedback.docs),
                                    !.pc = "returned"]
    /\ UNCHANGED <<search, calls, chunker, rerank, retrieval>>

NextFeedback == FeedbackDoc \/ FeedbackCheck \/ FeedbackAdjust \/ FeedbackReturn

SpecFeedback == InitFeedback /\ [][NextFeedback]_vars

\* the feedback entries the model answered 'Yes' for, for document k
YesFeedback(k) ==
    SelectSeq([j \in 1..Len(feedback.feedback_data) |->
                  [relevance |-> feedback.feedback_data[j].relevance,
                   answer |-> feedback.answers[k][j]]],
              LAMBDA e : e.answer = "Yes")

\* the model answered every check with 'Yes' or 'No'
AnsweredYesOrNo ==
    \A k \in 1..Len(feedback.docs) : \A j \in 1..Len(feedback.feedback_data) :
        feedback.answers[k][j] \in {"Yes", "No"}

\* C26: when the call has returned (the model having answered 'Yes' or
\* 'No' to every check), the score of every document with at least one
\* 'Yes' is its initial score multiplied by (average relevance of the
\* entries answered 'Yes') / 3, every other document kept its score, and
\* the documents are returned by descending adjusted score.
C26_ScoresAdjustedByFeedback ==
    (feedback.pc = "returned" /\ AnsweredYesOrNo) =>
        /\ \A k \in 1..Len(feedback.docs) :
              feedback.docs[k].relevance_score =
                  IF YesFeedback(k) # <<>>
                  THEN Adjusted(feedback.initial_scores[k], YesFeedback(k))
                  ELSE feedback.initial_scores[k]
        /\ Len(feedback.result) = Len(feedback.docs)
        /\ \A k \in 1..Len(feedback.docs) :
              \E j \in 1..Len(feedback.result) :
                  feedback.result[j] = feedback.docs[k]
        /\ \A i, j \in 1..Len(feedback.result) :
              i < j => feedback.result[i].relevance_score
                          >= feedback.result[j].relevance_score

----------------------------------------------------------------------------
(* Two invocations of get_best_segments side by side.  calls[k] is the     *)
(* frame of invocation k: its arguments, its locals and its position.  The *)
(* steps are those of WhileTest, ForStart, ForEnd and Decide, taken on a   *)
(* frame; the two invocations take their steps in any order.               *)

MaxChunksTwo == 2

ValueSetTwo == {-1, 3}

RECURSIVE SeqsTwoUpTo(_)
SeqsTwoUpTo(n) ==
    IF n = 0 THEN {<<>>}
    ELSE LET shorter == SeqsTwoUpTo(n - 1)
         IN  shorter \cup {Append(s, v) : s \in {t \in shorter : Len(t) = n - 1},
                                          v \in ValueSetTwo}

InputsTwo ==
    [rv : SeqsTwoUpTo(MaxChunksTwo), ml : {0, 2}, oml : {0, 2}, mv : {0, 4}]

\* lines 585, 602-604: the frame of a new call
NewCall(in) ==
    [relevance_values |-> in.rv, max_length |-> in.ml,
     overall_max_length |-> in.oml, minimum_value |-> in.mv,
     best_segments |-> <<>>, scores |-> <<>>, total_length |-> 0,
     best_segment |-> None, best_value |-> 0, start |-> 0, end |-> 0,
     pc |-> "while"]

\* lines 605-609
StepWhile(c) ==
    IF c.total_length < c.overall_max_length
    THEN [c EXCEPT !.best_segment = None, !.best_value = InitialBestValue,
                   !.start = 0, !.pc = "for_start"]
    ELSE [c EXCEPT !.pc = "returned"]

\* lines 609-613 with the skipped value overwritten in the caller's list
StepForStartClamping(c) ==
    IF c.start >= Len(c.relevance_values)
    THEN [c EXCEPT !.pc = "decide"]
    ELSE IF Negative(c.relevance_values[c.start + 1])
    THEN [c EXCEPT !.relevance_values[c.start + 1] = 0, !.start = @ + 1]
    ELSE [c EXCEPT !.end = c.start + 1, !.pc = "for_end"]

\* lines 609-613
StepForStart(c) ==
    IF c.start >= Len(c.relevance_values)
    THEN [c EXCEPT !.pc = "decide"]
    ELSE IF Negative(c.relevance_values[c.start + 1])
    THEN [c EXCEPT !.start = @ + 1]
    ELSE [c EXCEPT !.end = c.start + 1, !.pc = "for_end"]

\* lines 613-628
StepForEnd(c) ==
    IF EndRangeDone(c.relevance_values, c.start, c.end, c.max_length)
    THEN [c EXCEPT !.start = @ + 1, !.pc = "for_start"]
    ELSE IF Negative(c.relevance_values[c.end])
    THEN [c EXCEPT !.end = @ + 1]
    ELSE LET overlap == AnyOverlap(c.start, c.end, c.best_segments)
             segment_value == SliceSum(c.relevance_values, c.start, c.end)
         IN  IF overlap = "raise"
             THEN [c EXCEPT !.pc = "raised"]
             ELSE IF overlap = "True"
                     \/ OverBudget(c.total_length, c.start, c.end,
                                   c.overall_max_length)
                     \/ ~(segment_value > c.best_value)
             THEN [c EXCEPT !.end = @ + 1]
             ELSE [c EXCEPT !.best_value = segment_value,
                            !.best_segment = <<c.start, c.end>>,
                            !.end = @ + 1]

\* lines 630-639
StepDecide(c) ==
    IF NoValidSegment(c.best_segment, c.best_value, c.minimum_value)
    THEN [c EXCEPT !.pc = "returned"]
    ELSE [c EXCEPT !.best_segments = Append(@, c.best_segment),
                   !.scores = Append(@, c.best_value),
                   !.total_length = @ + c.best_segment[2] - c.best_segment[1],
                   !.pc = "while"]

\* the next statement of the frame c
CallStep(c) ==
    CASE c.pc = "while" -> StepWhile(c)
      [] c.pc = "for_start" -> StepForStart(c)
      [] c.pc = "for_end" -> StepForEnd(c)
      [] c.pc = "decide" -> StepDecide(c)

\* the locals kept in module-level names, one set for all invocations
SharedFrame(cs, k, c) ==
    [j \in DOMAIN cs |->
        IF j = k THEN c
        ELSE [cs[j] EXCEPT !.best_segments = c.best_segments,
                           !.scores = c.scores,
                           !.total_length = c.total_length,
                           !.best_segment = c.best_segment,
                           !.best_value = c.best_value,
                           !.start = c.start, !.end = c.end]]

\* lines 602-613: best_segments, scores, total_length, best_segment,
\* best_value, start and end are locals of the function, so a step of
\* invocation k writes the frame of invocation k only
OwnFrame(cs, k, c) == [cs EXCEPT ![k] = c]

CallOver(c) == c.pc \in {"returned", "raised"}

InitTwo ==
    /\ \E in1 \in InputsTwo : \E in2 \in InputsTwo :
          calls = <<NewCall(in1), NewCall(in2)>>
    /\ IdleSearch
    /\ chunker = NoChunker
    /\ rerank = NoRerank
    /\ retrieval = NoRetrieval
    /\ feedback = NoFeedback

StepCall(k) ==
    /\ ~CallOver(calls[k])
    /\ calls' = OwnFrame(calls, k, CallStep(calls[k]))
    /\ UNCHANGED <<search, chunker, rerank, retrieval, feedback>>

StepFirst == StepCall(1)

StepSecond == StepCall(2)

NextTwo == StepFirst \/ StepSecond

SpecTwo == InitTwo /\ [][NextTwo]_vars

\* the frame a call ends with when it runs alone
RECURSIVE RunAlone(_)
RunAlone(c) == IF CallOver(c) THEN c ELSE RunAlone(CallStep(c))

ArgsOf(c) ==
    [rv |-> c.relevance_values, ml |-> c.max_length,
     oml |-> c.overall_max_length, mv |-> c.minimum_value]

\* how a call ended and the two lists it built
Outcome(c) == <<c.pc, c.best_segments, c.scores>>

IsPrefix(p, q) == Len(p) <= Len(q) /\ SubSeq(q, 1, Len(p)) = p

\* C28: of two finished calls with the same relevance_values, max_length
\* and overall_max_length and with minimum_value m1 <= m2, both have
\* returned, and the segment list and the score list of the call with m2
\* are prefixes of those of the call with m1.
C28_RaisingMinimumTruncates ==
    calls # NoCalls =>
        \A a, b \in 1..2 :
            (/\ a # b
             /\ calls[a].relevance_values = calls[b].relevance_values
             /\ calls[a].max_length = calls[b].max_length
             /\ calls[a].overall_max_length = calls[b].overall_max_length
             /\ calls[a].minimum_value <= calls[b].minimum_value
             /\ CallOver(calls[a])
             /\ CallOver(calls[b])) =>
                /\ calls[a].pc = "returned"
                /\ calls[b].pc = "returned"
                /\ IsPrefix(calls[b].best_segments, calls[a].best_segments)
                /\ IsPrefix(calls[b].scores, calls[a].scores)

====
